---------------------------- MODULE Spec2Model ----------------------------
(***************************************************************************)
(* GalacticScribe.py: fetch the chapters of each configured story, build   *)
(* one e-book per story, mail it, record the delivery in a dated log and   *)
(* mail a summary.  send_email and download_stories are both wrapped in    *)
(* tenacity's @retry(stop_after_attempt(3)).                               *)
(*                                                                         *)
(* Environment assumptions of the model: calls on the local filesystem     *)
(* that touch what the program itself has just created (mkdir, os.remove   *)
(* of the e-book, the append to the log, the pruning of the log directory) *)
(* succeed; the platform fetch, epub.write_epub and every SMTP session     *)
(* may fail.  Every submission carries an HTML body (selftext_html is a    *)
(* string).  Only this program writes into email_logs, and the clock does  *)
(* not run backwards.                                                      *)
(***************************************************************************)
EXTENDS Integers, Sequences, FiniteSets, TLC

VARIABLES
    botEnabled,           \* config['SETTINGS'].getboolean('bot_enabled')
    pairs,                \* authors_stories, flattened in iteration order
    pc,                   \* position of the process
    attempt,              \* number of the running download_stories attempt
    idx,                  \* position of the (author, story) loops
    summary,              \* download_stories: summary
    failed_files,         \* download_stories: failed_files
    fetched,              \* what get_chapters returned for the current story
    chapter_submissions,  \* the dict, as its values in key insertion order
    toc,                  \* epub_book.toc
    spine,                \* epub_book.spine
    msg,                  \* the message of the running send_email call
    smtpLog,              \* outcome of each SMTP session of the running call
    sendState,            \* "idle", "calling", "returned" or "raised"
    outbox,               \* the messages the mail server accepted, in order
    files,                \* e-book files on disk: path -> book
    dirs,                 \* story directories on disk
    logFiles,             \* email_logs/*.log, sorted by creation time
    clock,                \* current calendar day
    written,              \* every line log_email_sent wrote, in order
    fetches               \* every get_chapters call, in order

vars == <<botEnabled, pairs, pc, attempt, idx, summary, failed_files, fetched,
          chapter_submissions, toc, spine, msg, smtpLog, sendState, outbox,
          files, dirs, logFiles, clock, written, fetches>>

-----------------------------------------------------------------------------
(* Bounds of the model *)

MaxPairs == 2       \* configured (author, story) pairs
MaxSubs == 3        \* submissions get_chapters returns for one story
MaxTime == 2        \* created_utc ranges over 1..MaxTime
MaxLogs == 2        \* log files already in email_logs when the process starts
MaxDay == 2         \* the calendar day advances from 1 up to MaxDay
MaxAppends == 3     \* deliveries recorded in the ledger specification

(* Program constants *)

MinBodyLen == 100                  \* validate_story: len(html_content) < 100
SendAttempts == 3                  \* send_email: stop_after_attempt(3)
DownloadAttempts == 3              \* download_stories: stop_after_attempt(3)
MaxSizeMb == 25                    \* clean_old_logs(log_dir, max_size_mb=25)
BytesPerMb == 1048576              \* (1024 * 1024)
StampLen == 19                     \* len(time.strftime('%Y-%m-%d %H:%M:%S'))

-----------------------------------------------------------------------------
(* Helpers on sequences *)

Range(s) == {s[i] : i \in DOMAIN s}

SeqsUpTo(S, n) == UNION {[1..k -> S] : k \in 0..n}

Last(s) == s[Len(s)]

-----------------------------------------------------------------------------
(* sanitize_title: every character of the class [<>:"/\|?*] becomes '_'.   *)
(* Titles are sequences of one-character strings.                          *)

UnsafeChars == {"<", ">", ":", "\"", "/", "\\", "|", "?", "*"}

sanitize_title(title) ==
    [i \in DOMAIN title |-> IF title[i] \in UnsafeChars THEN "_" ELSE title[i]]

-----------------------------------------------------------------------------
(* validate_story.  An HTML body is its length in characters and the       *)
(* elements BeautifulSoup finds in it, each with its tag name and text.    *)

Whitespace == {" ", "\n", "\t"}

RECURSIVE LStrip(_)
LStrip(text) ==
    IF text # <<>> /\ Head(text) \in Whitespace THEN LStrip(Tail(text)) ELSE text

RECURSIVE RStrip(_)
RStrip(text) ==
    IF text # <<>> /\ Last(text) \in Whitespace
    THEN RStrip(SubSeq(text, 1, Len(text) - 1))
    ELSE text

Strip(text) == RStrip(LStrip(text))

StructuralTags == {"p", "h1", "h2", "h3", "h4", "h5", "h6"}

EmptyTags(html_content) ==
    {i \in DOMAIN html_content.elems :
        /\ html_content.elems[i].name \in StructuralTags
        /\ Strip(html_content.elems[i].text) = <<>>}

TooShort(html_content) == html_content.len < MinBodyLen

validate_story(chapter_title, html_content) ==
    IF TooShort(html_content)
    THEN [is_valid |-> FALSE, message |-> <<chapter_title, "is too short.">>]
    ELSE IF EmptyTags(html_content) # {}
    THEN [is_valid |-> FALSE, message |-> <<chapter_title, "contains empty tags.">>]
    ELSE [is_valid |-> TRUE, message |-> <<>>]

-----------------------------------------------------------------------------
(* Submissions, as get_chapters returns them *)

Titles == {<<"C", "1">>, <<"C", "2", "?">>}

Bodies ==
    { [len |-> 99,  elems |-> <<[name |-> "p", text |-> <<"x">>]>>],
      [len |-> 100, elems |-> <<[name |-> "div", text |-> <<>>],
                                [name |-> "p", text |-> <<" ", "x", " ">>]>>],
      [len |-> 150, elems |-> <<[name |-> "p", text |-> <<"x">>],
                                [name |-> "h2", text |-> <<>>]>>],
      [len |-> 120, elems |-> <<[name |-> "p", text |-> <<" ", "\n">>]>>] }

Submissions ==
    [title : Titles, created_utc : 1..MaxTime, selftext_html : Bodies]

(* The dict chapter_submissions is the sequence of its values in key       *)
(* insertion order (a Python dict keeps that order; assigning to a key it  *)
(* already holds keeps the key's position).                                *)

KeyIndex(dict, title) == {i \in DOMAIN dict : dict[i].title = title}

(* Newer with the comparison reversed: the older submission would win *)
OlderMut(submission, held) == submission.created_utc < held.created_utc

Newer(submission, held) == submission.created_utc > held.created_utc

CollectSubmission(dict, submission) ==
    IF KeyIndex(dict, submission.title) # {}
    THEN LET i == CHOOSE j \in KeyIndex(dict, submission.title) : TRUE
         IN  IF Newer(submission, dict[i])
             THEN [dict EXCEPT ![i] = submission]
             ELSE dict
    ELSE Append(dict, submission)

RECURSIVE CollectAll(_, _)
CollectAll(dict, submissions) ==
    IF submissions = <<>>
    THEN dict
    ELSE CollectAll(CollectSubmission(dict, Head(submissions)), Tail(submissions))

(* sorted(..., key=lambda x: x.created_utc): ascending and stable *)

(* SortsBefore with the order reversed: a descending sort *)
SortsBeforeMut(a, b) == a.created_utc >= b.created_utc

SortsBefore(a, b) == a.created_utc <= b.created_utc

RECURSIVE InsertSorted(_, _)
InsertSorted(s, x) ==
    IF s = <<>>
    THEN <<x>>
    ELSE IF SortsBefore(Last(s), x)
    THEN Append(s, x)
    ELSE Append(InsertSorted(SubSeq(s, 1, Len(s) - 1), x), Last(s))

RECURSIVE SortRec(_, _)
SortRec(done, rest) ==
    IF rest = <<>> THEN done ELSE SortRec(InsertSorted(done, Head(rest)), Tail(rest))

sorted_submissions(dict) == SortRec(<<>>, dict)

(* Lines 99-115: one EpubHtml per submission validate_story accepts; a     *)
(* rejected one is logged and skipped.  str(soup) re-serialises the parsed *)
(* tree.                                                                   *)

Chapter(submission) ==
    [title |-> submission.title,
     file_name |-> sanitize_title(submission.title) \o <<".xhtml">>,
     content |-> submission.selftext_html.elems]

(* SkipsChapter without the validation: every chapter would be kept *)
SkipsChapterMut(submission) == FALSE

SkipsChapter(submission) ==
    ~validate_story(submission.title, submission.selftext_html).is_valid

RECURSIVE ProcessChapters(_)
ProcessChapters(submissions) ==
    IF submissions = <<>>
    THEN <<>>
    ELSE IF SkipsChapter(Head(submissions))
    THEN ProcessChapters(Tail(submissions))
    ELSE <<Chapter(Head(submissions))>> \o ProcessChapters(Tail(submissions))

(* Lines 84-118 for what get_chapters returned *)
Assemble(submissions) ==
    LET dict == CollectAll(<<>>, submissions)
        chapters == ProcessChapters(sorted_submissions(dict))
    IN  /\ fetched' = submissions
        /\ chapter_submissions' = dict
        /\ toc' = chapters
        /\ spine' = <<"nav">> \o chapters

-----------------------------------------------------------------------------
(* Configuration *)

None == <<>>

Digits == <<"0", "1", "2", "3", "4", "5", "6", "7", "8", "9">>

AuthorOf(i) == <<"u", Digits[(i % 10) + 1]>>

StoryOf(i) ==
    IF i % 2 = 1
    THEN <<"S", Digits[(i % 10) + 1], "?">>
    ELSE <<"S", Digits[(i % 10) + 1], ":", "b">>

Config(n) == [i \in 1..n |-> [author |-> AuthorOf(i), story |-> StoryOf(i)]]

Receiver == "receiver"              \* config['EMAIL']['receiver']
ErrorReceiver == "error_receiver"   \* config['EMAIL']['error_receiver']

(* What the platform holds for the i-th configured story while the process *)
(* runs: a re-posted chapter and a short one, two chapters newest first,   *)
(* or nothing                                                              *)
Sub(title, created_utc, len) ==
    [title |-> title, created_utc |-> created_utc,
     selftext_html |-> CHOOSE b \in Bodies : b.len = len]

Platform(i) ==
    IF i % 3 = 1
    THEN << Sub(<<"C", "1">>, 1, 100), Sub(<<"C", "1">>, 2, 100),
            Sub(<<"C", "2", "?">>, 2, 99) >>
    ELSE IF i % 3 = 2
    THEN << Sub(<<"C", "2", "?">>, 2, 100), Sub(<<"C", "1">>, 1, 100) >>
    ELSE <<>>

-----------------------------------------------------------------------------
(* Paths and files *)

story_dir(story) == sanitize_title(story)

epub_path(story) ==
    [dir |-> story_dir(story), name |-> sanitize_title(story) \o <<".epub">>]

Book(story, author, chapters, order) ==
    [title |-> story, author |-> author, language |-> "en",
     toc |-> chapters, spine |-> order]

WriteFile(fs, path, content) ==
    [p \in DOMAIN fs \cup {path} |-> IF p = path THEN content ELSE fs[p]]

(* RemoveFile without the removal: the e-book would stay on disk *)
EpubKept(fs, path) == fs

RemoveFile(fs, path) == [p \in DOMAIN fs \ {path} |-> fs[p]]

NoFiles == [p \in {} |-> None]

-----------------------------------------------------------------------------
(* send_email: the message, and one SMTP session per attempt *)

Attachment(path, content) == <<[filename |-> path.name, payload |-> content]>>

Message(attachment, story_title, receiver_email, error_message) ==
    [To |-> receiver_email,
     Subject |-> IF error_message = None
                 THEN story_title
                 ELSE <<"Error: ">> \o story_title,
     attachment |-> attachment,
     text |-> error_message]

SendCall(m) ==
    /\ msg' = m
    /\ smtpLog' = <<>>
    /\ sendState' = "calling"

SendOver ==
    /\ smtpLog' = <<>>
    /\ sendState' = "idle"
    /\ UNCHANGED msg

(* GivesUp one attempt later *)
GivesUpMut(tries) == Len(tries) >= SendAttempts + 1

GivesUp(tries) == Len(tries) >= SendAttempts

SmtpSucceeds ==
    /\ sendState = "calling"
    /\ smtpLog' = Append(smtpLog, "sent")
    /\ outbox' = Append(outbox, msg)
    /\ sendState' = "returned"
    /\ UNCHANGED <<botEnabled, pairs, pc, attempt, idx, summary, failed_files,
                   fetched, chapter_submissions, toc, spine, msg, files, dirs,
                   logFiles, clock, written, fetches>>

SmtpFails ==
    /\ sendState = "calling"
    /\ smtpLog' = Append(smtpLog, "failed")
    /\ sendState' = IF GivesUp(smtpLog') THEN "raised" ELSE "calling"
    /\ UNCHANGED <<botEnabled, pairs, pc, attempt, idx, summary, failed_files,
                   fetched, chapter_submissions, toc, spine, msg, outbox, files,
                   dirs, logFiles, clock, written, fetches>>

-----------------------------------------------------------------------------
(* log_email_sent and clean_old_logs.  A log file is its date and its size *)
(* in bytes; logFiles is the directory sorted by os.path.getctime.  The    *)
(* file of a day is written on that day only, so creation time (Windows)   *)
(* and last change time (Unix) both order the files by date.  The test     *)
(* sum(sizes) / (1024 * 1024) > max_size_mb is sum(sizes) > MaxBytes: the  *)
(* division by a power of two is exact.                                    *)

MaxBytes == MaxSizeMb * BytesPerMb

LineBytes(story_title) == StampLen + 3 + Len(story_title) + 1

RECURSIVE TotalSize(_)
TotalSize(log_files) ==
    IF log_files = <<>> THEN 0 ELSE Head(log_files).size + TotalSize(Tail(log_files))

AppendLine(log_files, log_date, story_title) ==
    IF \E i \in DOMAIN log_files : log_files[i].date = log_date
    THEN [i \in DOMAIN log_files |->
            IF log_files[i].date = log_date
            THEN [log_files[i] EXCEPT !.size = @ + LineBytes(story_title)]
            ELSE log_files[i]]
    ELSE Append(log_files, [date |-> log_date, size |-> LineBytes(story_title)])

(* PopOldest at the other end of the list: log_files.pop() *)
PopNewestMut(log_files) == SubSeq(log_files, 1, Len(log_files) - 1)

PopOldest(log_files) == Tail(log_files)

OverCap(log_files) == TotalSize(log_files) > MaxBytes

RECURSIVE clean_old_logs(_)
clean_old_logs(log_files) ==
    IF OverCap(log_files) THEN clean_old_logs(PopOldest(log_files)) ELSE log_files

log_email_sent(story_title, log_date) ==
    /\ logFiles' = clean_old_logs(AppendLine(logFiles, log_date, story_title))
    /\ written' = Append(written, [story |-> story_title, date |-> log_date,
                                   attempt |-> attempt])

(* email_logs as earlier runs can have left it: one file per day up to    *)
(* today (day 1) or yesterday, never over the cap                          *)
LogSizes == {24, MaxBytes - 25}

InitialLogDirs ==
    {lf \in SeqsUpTo([date : (1 - MaxLogs)..1, size : LogSizes], MaxLogs) :
        /\ \A i \in DOMAIN lf : i < Len(lf) => lf[i + 1].date = lf[i].date + 1
        /\ lf # <<>> => Last(lf).date \in {0, 1}
        /\ ~OverCap(lf)}

(* email_logs at the start of a run of the whole process *)
StartLogDirs ==
    { <<>>,
      <<[date |-> 1, size |-> MaxBytes - 25]>>,
      <<[date |-> 0, size |-> 24], [date |-> 1, size |-> MaxBytes - 50]>> }

-----------------------------------------------------------------------------
(* The texts download_stories and job write *)

RetryErrorText == "RetryError"      \* str(e) of what send_email raised

SuccessLine(story, author) ==
    <<"Successfully processed and sent ">> \o story \o <<" by ">> \o author

ErrorMessage(story) ==
    <<"Failed to send and delete EPUB for ">> \o story \o <<": ", RetryErrorText>>

RECURSIVE JoinLines(_)
JoinLines(lines) ==
    IF lines = <<>>
    THEN <<>>
    ELSE IF Len(lines) = 1
    THEN Head(lines)
    ELSE Head(lines) \o <<"\n">> \o JoinLines(Tail(lines))

SummaryBody(lines) == <<"Summary:\n\n">> \o JoinLines(lines)

StartedMessage ==
    Message(None, <<"Bot Started">>, ErrorReceiver, <<"The bot has started.">>)

StoryMessage(story, book) ==
    Message(Attachment(epub_path(story), book), story, Receiver, None)

StoryErrorMessage(story) ==
    Message(None, <<"Error - ">> \o story, ErrorReceiver, ErrorMessage(story))

SummaryMessage(lines) ==
    Message(None, <<"Stories Download Summary">>, ErrorReceiver, SummaryBody(lines))

(* BotErrorMessage addressed to the reader instead of the error recipient *)
BotErrorToReaderMut ==
    Message(None, <<"Bot Error">>, Receiver,
            <<"Bot encountered an error: ", RetryErrorText>>)

BotErrorMessage ==
    Message(None, <<"Bot Error">>, ErrorReceiver,
            <<"Bot encountered an error: ", RetryErrorText>>)

-----------------------------------------------------------------------------
(* Initial state: the configuration is read, nothing is fetched yet, and   *)
(* the module-level send_email("Bot Started") has been called.             *)

Init ==
    /\ botEnabled \in BOOLEAN
    /\ pairs \in {Config(n) : n \in 0..MaxPairs}
    /\ pc = "boot"
    /\ attempt = 0
    /\ idx = 0
    /\ summary = <<>>
    /\ failed_files = <<>>
    /\ fetched = <<>>
    /\ chapter_submissions = <<>>
    /\ toc = <<>>
    /\ spine = <<>>
    /\ msg = StartedMessage
    /\ smtpLog = <<>>
    /\ sendState = "calling"
    /\ outbox = <<>>
    /\ files = NoFiles
    /\ dirs = {}
    /\ logFiles \in StartLogDirs
    /\ clock = 1
    /\ written = <<>>
    /\ fetches = <<>>

(* Entry of download_stories: lines 68-69 *)
(* FirstIndex resuming a retried attempt at the pair that failed *)
FirstIndexMut == IF attempt = 0 THEN 1 ELSE idx

FirstIndex == 1

BeginAttempt(n) ==
    /\ attempt' = n
    /\ summary' = <<>>
    /\ failed_files' = <<>>
    /\ idx' = FirstIndex
    /\ pc' = "loop"

(* Line 202: the start notification went out, job() calls download_stories *)
StartJob ==
    /\ pc = "boot"
    /\ sendState = "returned"
    /\ BeginAttempt(1)
    /\ SendOver
    /\ UNCHANGED <<botEnabled, pairs, fetched, chapter_submissions, toc, spine,
                   outbox, files, dirs, logFiles, clock, written, fetches>>

(* Line 200: the start notification failed three times; nothing catches it *)
StartFails ==
    /\ pc = "boot"
    /\ sendState = "raised"
    /\ pc' = "crashed"
    /\ SendOver
    /\ UNCHANGED <<botEnabled, pairs, attempt, idx, summary, failed_files,
                   fetched, chapter_submissions, toc, spine, outbox, files, dirs,
                   logFiles, clock, written, fetches>>

(* MoreStories stopping one pair early *)
SkipsStoriesMut == botEnabled /\ idx < Len(pairs)

(* MoreStories without the bot_enabled test *)
RunsDisabledMut == idx <= Len(pairs)

MoreStories == botEnabled /\ idx <= Len(pairs)

(* Lines 73-87: the story directory is made and get_chapters is called *)
EnterStory ==
    /\ pc = "loop"
    /\ MoreStories
    /\ dirs' = dirs \cup {story_dir(pairs[idx].story)}
    /\ fetches' = Append(fetches, [attempt |-> attempt, idx |-> idx,
                                   author |-> pairs[idx].author,
                                   story |-> pairs[idx].story])

(* get_chapters raises: the attempt of download_stories raises *)
FetchFails ==
    /\ EnterStory
    /\ fetched' = <<>>
    /\ chapter_submissions' = <<>>
    /\ toc' = <<>>
    /\ spine' = <<"nav">>
    /\ pc' = "raised"
    /\ UNCHANGED <<botEnabled, pairs, attempt, idx, summary, failed_files, msg,
                   smtpLog, sendState, outbox, files, logFiles, clock, written>>

(* Lines 73-121, epub.write_epub raises *)
WriteFails ==
    /\ EnterStory
    /\ Assemble(Platform(idx))
    /\ pc' = "raised"
    /\ UNCHANGED <<botEnabled, pairs, attempt, idx, summary, failed_files, msg,
                   smtpLog, sendState, outbox, files, logFiles, clock, written>>

(* Lines 73-125: the e-book is on disk and send_email is called with it *)
StoryAssembled ==
    /\ EnterStory
    /\ Assemble(Platform(idx))
    /\ LET story == pairs[idx].story
           book == Book(story, pairs[idx].author, toc', spine')
       IN  /\ files' = WriteFile(files, epub_path(story), book)
           /\ SendCall(StoryMessage(story, book))
    /\ pc' = "send_story"
    /\ UNCHANGED <<botEnabled, pairs, attempt, idx, summary, failed_files,
                   outbox, logFiles, clock, written>>

(* Lines 126-128: the send returned *)
StoryDelivered ==
    /\ pc = "send_story"
    /\ sendState = "returned"
    /\ LET story == pairs[idx].story
       IN  /\ files' = RemoveFile(files, epub_path(story))
           /\ summary' = Append(summary, SuccessLine(story, pairs[idx].author))
           /\ log_email_sent(story, clock)
    /\ idx' = idx + 1
    /\ pc' = "loop"
    /\ SendOver
    /\ UNCHANGED <<botEnabled, pairs, attempt, failed_files, fetched,
                   chapter_submissions, toc, spine, outbox, dirs, clock,
                   fetches>>

(* Lines 129-132: the send raised; the handler calls send_email again *)
DeliveryFailed ==
    /\ pc = "send_story"
    /\ sendState = "raised"
    /\ SendCall(StoryErrorMessage(pairs[idx].story))
    /\ pc' = "send_error"
    /\ UNCHANGED <<botEnabled, pairs, attempt, idx, summary, failed_files,
                   fetched, chapter_submissions, toc, spine, outbox, files, dirs,
                   logFiles, clock, written, fetches>>

(* Lines 133-134 *)
ErrorNotified ==
    /\ pc = "send_error"
    /\ sendState = "returned"
    /\ summary' = Append(summary, ErrorMessage(pairs[idx].story))
    /\ failed_files' = Append(failed_files, epub_path(pairs[idx].story))
    /\ idx' = idx + 1
    /\ pc' = "loop"
    /\ SendOver
    /\ UNCHANGED <<botEnabled, pairs, attempt, fetched, chapter_submissions, toc,
                   spine, outbox, files, dirs, logFiles, clock, written, fetches>>

(* Line 132 raises inside the handler: the attempt raises *)
ErrorNotifyFails ==
    /\ pc = "send_error"
    /\ sendState = "raised"
    /\ pc' = "raised"
    /\ SendOver
    /\ UNCHANGED <<botEnabled, pairs, attempt, idx, summary, failed_files,
                   fetched, chapter_submissions, toc, spine, outbox, files, dirs,
                   logFiles, clock, written, fetches>>

(* Lines 136-137: after the loops, or at once with the bot disabled *)
SendSummary ==
    /\ pc = "loop"
    /\ ~MoreStories
    /\ SendCall(SummaryMessage(summary))
    /\ pc' = "send_summary"
    /\ UNCHANGED <<botEnabled, pairs, attempt, idx, summary, failed_files,
                   fetched, chapter_submissions, toc, spine, outbox, files, dirs,
                   logFiles, clock, written, fetches>>

(* download_stories returns, job returns, the process ends *)
SummarySent ==
    /\ pc = "send_summary"
    /\ sendState = "returned"
    /\ pc' = "exit"
    /\ SendOver
    /\ UNCHANGED <<botEnabled, pairs, attempt, idx, summary, failed_files,
                   fetched, chapter_submissions, toc, spine, outbox, files, dirs,
                   logFiles, clock, written, fetches>>

SummaryFails ==
    /\ pc = "send_summary"
    /\ sendState = "raised"
    /\ pc' = "raised"
    /\ SendOver
    /\ UNCHANGED <<botEnabled, pairs, attempt, idx, summary, failed_files,
                   fetched, chapter_submissions, toc, spine, outbox, files, dirs,
                   logFiles, clock, written, fetches>>

(* Line 66: tenacity runs download_stories again while attempts are left *)
(* AttemptsLeft with one attempt more *)
AttemptsLeftMut == attempt < DownloadAttempts + 1

AttemptsLeft == attempt < DownloadAttempts

RetryDownload ==
    /\ pc = "raised"
    /\ AttemptsLeft
    /\ BeginAttempt(attempt + 1)
    /\ UNCHANGED <<botEnabled, pairs, fetched, chapter_submissions, toc, spine,
                   msg, smtpLog, sendState, outbox, files, dirs, logFiles, clock,
                   written, fetches>>

(* Lines 192-194: the retry budget is spent, job's handler reports it *)
JobCatches ==
    /\ pc = "raised"
    /\ ~AttemptsLeft
    /\ SendCall(BotErrorMessage)
    /\ pc' = "send_boterror"
    /\ UNCHANGED <<botEnabled, pairs, attempt, idx, summary, failed_files,
                   fetched, chapter_submissions, toc, spine, outbox, files, dirs,
                   logFiles, clock, written, fetches>>

BotErrorSent ==
    /\ pc = "send_boterror"
    /\ sendState = "returned"
    /\ pc' = "exit"
    /\ SendOver
    /\ UNCHANGED <<botEnabled, pairs, attempt, idx, summary, failed_files,
                   fetched, chapter_submissions, toc, spine, outbox, files, dirs,
                   logFiles, clock, written, fetches>>

(* Line 194 raises inside job's handler: the error leaves job *)
BotErrorFails ==
    /\ pc = "send_boterror"
    /\ sendState = "raised"
    /\ pc' = "crashed"
    /\ SendOver
    /\ UNCHANGED <<botEnabled, pairs, attempt, idx, summary, failed_files,
                   fetched, chapter_submissions, toc, spine, outbox, files, dirs,
                   logFiles, clock, written, fetches>>

Next ==
    \/ SmtpSucceeds
    \/ SmtpFails
    \/ StartJob
    \/ StartFails
    \/ FetchFails
    \/ WriteFails
    \/ StoryAssembled
    \/ StoryDelivered
    \/ DeliveryFailed
    \/ ErrorNotified
    \/ ErrorNotifyFails
    \/ SendSummary
    \/ SummarySent
    \/ SummaryFails
    \/ RetryDownload
    \/ JobCatches
    \/ BotErrorSent
    \/ BotErrorFails

Spec == Init /\ [][Next]_vars

-----------------------------------------------------------------------------
(* Lines 84-118 on every sequence get_chapters can return within the       *)
(* bounds: the dict, the sort and the chapter loop of one story.           *)

InitBook ==
    /\ botEnabled = TRUE
    /\ pairs = Config(1)
    /\ pc = "chapters"
    /\ attempt = 1
    /\ idx = 1
    /\ summary = <<>>
    /\ failed_files = <<>>
    /\ fetched \in SeqsUpTo(Submissions, MaxSubs)
    /\ chapter_submissions = <<>>
    /\ toc = <<>>
    /\ spine = <<"nav">>
    /\ msg = StartedMessage
    /\ smtpLog = <<>>
    /\ sendState = "idle"
    /\ outbox = <<>>
    /\ files = NoFiles
    /\ dirs = {}
    /\ logFiles = <<>>
    /\ clock = 1
    /\ written = <<>>
    /\ fetches = <<>>

AssembleBook ==
    /\ pc = "chapters"
    /\ Assemble(fetched)
    /\ pc' = "assembled"
    /\ UNCHANGED <<botEnabled, pairs, attempt, idx, summary, failed_files, msg,
                   smtpLog, sendState, outbox, files, dirs, logFiles, clock,
                   written, fetches>>

NextBook == AssembleBook

SpecBook == InitBook /\ [][NextBook]_vars

-----------------------------------------------------------------------------
(* recordDelivery on every log directory earlier runs can have left, over  *)
(* several deliveries and days                                             *)

InitLedger ==
    /\ botEnabled = TRUE
    /\ pairs = Config(MaxPairs)
    /\ pc = "ledger"
    /\ attempt = 1
    /\ idx = 1
    /\ summary = <<>>
    /\ failed_files = <<>>
    /\ fetched = <<>>
    /\ chapter_submissions = <<>>
    /\ toc = <<>>
    /\ spine = <<"nav">>
    /\ msg = StartedMessage
    /\ smtpLog = <<>>
    /\ sendState = "idle"
    /\ outbox = <<>>
    /\ files = NoFiles
    /\ dirs = {}
    /\ logFiles \in InitialLogDirs
    /\ clock = 1
    /\ written = <<>>
    /\ fetches = <<>>

(* Line 128 for some configured story *)
RecordDelivery ==
    /\ pc = "ledger"
    /\ Len(written) < MaxAppends
    /\ \E i \in DOMAIN pairs : log_email_sent(pairs[i].story, clock)
    /\ UNCHANGED <<botEnabled, pairs, pc, attempt, idx, summary, failed_files,
                   fetched, chapter_submissions, toc, spine, msg, smtpLog,
                   sendState, outbox, files, dirs, clock, fetches>>

(* The calendar day changes between two deliveries *)
Midnight ==
    /\ pc = "ledger"
    /\ clock < MaxDay
    /\ clock' = clock + 1
    /\ UNCHANGED <<botEnabled, pairs, pc, attempt, idx, summary, failed_files,
                   fetched, chapter_submissions, toc, spine, msg, smtpLog,
                   sendState, outbox, files, dirs, logFiles, written, fetches>>

NextLedger == RecordDelivery \/ Midnight

SpecLedger == InitLedger /\ [][NextLedger]_vars

-----------------------------------------------------------------------------
(* Properties *)

TitlesOf(submissions) == {submissions[i].title : i \in DOMAIN submissions}

(* C1: for any sequence get_chapters returns, in any order, the dict holds *)
(* exactly one submission per distinct title of the sequence, each one a   *)
(* submission of the sequence, and none of the same title in the sequence  *)
(* has a greater created_utc than the one kept.                            *)
DedupKeepsNewestPerTitle ==
    pc = "assembled" =>
        /\ TitlesOf(chapter_submissions) = TitlesOf(fetched)
        /\ \A i, j \in DOMAIN chapter_submissions :
              chapter_submissions[i].title = chapter_submissions[j].title => i = j
        /\ \A i \in DOMAIN chapter_submissions :
              /\ chapter_submissions[i] \in Range(fetched)
              /\ \A k \in DOMAIN fetched :
                    fetched[k].title = chapter_submissions[i].title
                        => fetched[k].created_utc <= chapter_submissions[i].created_utc

(* C1 witness: the newest of two same-titled submissions arrived first and *)
(* is the one in the dict                                                  *)
DedupNewestArrivedFirst ==
    /\ pc = "assembled"
    /\ \E k1, k2 \in DOMAIN fetched :
          /\ k1 < k2
          /\ fetched[k1].title = fetched[k2].title
          /\ fetched[k1].created_utc > fetched[k2].created_utc
          /\ fetched[k1] \in Range(chapter_submissions)
          /\ fetched[k2] \notin Range(chapter_submissions)

(* What the specification calls an accepted chapter: at least 100          *)
(* characters, and every p/h1..h6 element has a non-whitespace character   *)
Accepted(submission) ==
    /\ submission.selftext_html.len >= 100
    /\ \A e \in Range(submission.selftext_html.elems) :
          e.name \in {"p", "h1", "h2", "h3", "h4", "h5", "h6"}
              => \E c \in Range(e.text) : c \notin {" ", "\n", "\t"}

CreatedOf(title) ==
    (CHOOSE x \in Range(chapter_submissions) : x.title = title).created_utc

(* C2: the table of contents holds one entry for each deduplicated         *)
(* submission that is accepted and nothing else, in non-decreasing         *)
(* created_utc order, and the spine is 'nav' followed by the same entries. *)
TocIsAcceptedInTimeOrder ==
    pc = "assembled" =>
        LET accepted == {x \in Range(chapter_submissions) : Accepted(x)}
        IN  /\ Len(toc) = Cardinality(accepted)
            /\ {toc[k].title : k \in DOMAIN toc} = {x.title : x \in accepted}
            /\ \A k \in DOMAIN toc :
                  \E x \in accepted :
                      /\ x.title = toc[k].title
                      /\ x.selftext_html.elems = toc[k].content
            /\ \A k, l \in DOMAIN toc :
                  k < l => CreatedOf(toc[k].title) <= CreatedOf(toc[l].title)
            /\ Len(spine) = Len(toc) + 1
            /\ spine[1] = "nav"
            /\ \A k \in DOMAIN toc : spine[k + 1] = toc[k]

(* C2 witness: a rejected chapter is followed in time by an accepted one,  *)
(* which is in the book                                                    *)
TocSkipsRejectedAndGoesOn ==
    /\ pc = "assembled"
    /\ \E x, y \in Range(chapter_submissions) :
          /\ ~Accepted(x)
          /\ Accepted(y)
          /\ x.created_utc < y.created_utc
          /\ \E k \in DOMAIN toc : toc[k].title = y.title
          /\ \A k \in DOMAIN toc : toc[k].title # x.title

CountIn(seq, S) == Cardinality({i \in DOMAIN seq : seq[i] \in S})

StoryMails == {m \in Range(outbox) : m.attachment # <<>>}

SummaryMails ==
    {m \in Range(outbox) : m.Subject = <<"Error: ", "Stories Download Summary">>}

BotErrorMails == {m \in Range(outbox) : m.Subject = <<"Error: ", "Bot Error">>}

StartedMails == {m \in Range(outbox) : m.Subject = <<"Error: ", "Bot Started">>}

DeliveryFailureNeverAborts ==
    [][ pc = "send_error" =>
          \/ pc' = "send_error"
          \/ /\ pc' = "loop"
             /\ attempt' = attempt
             /\ idx' = idx + 1
             /\ Len(summary') = Len(summary) + 1
             /\ failed_files' = Append(failed_files, epub_path(pairs[idx].story))
             /\ Last(outbox').To = "error_receiver"
             /\ Last(outbox').Subject = <<"Error: ", "Error - ">> \o pairs[idx].story ]_vars

AllFailed(tries) == \A i \in DOMAIN tries : tries[i] = "failed"

(* C5: a send_email call makes at most 3 SMTP sessions, none after one     *)
(* that succeeded; it returns exactly when a session succeeded, is still   *)
(* retrying exactly when all sessions so far failed and they are fewer     *)
(* than 3, and raises exactly when 3 sessions failed.                      *)
SendEmailTriesThreeTimes ==
    /\ Len(smtpLog) <= 3
    /\ \A i \in DOMAIN smtpLog : i < Len(smtpLog) => smtpLog[i] = "failed"
    /\ sendState = "returned" <=> (smtpLog # <<>> /\ Last(smtpLog) = "sent")
    /\ sendState = "raised" <=> (Len(smtpLog) = 3 /\ AllFailed(smtpLog))
    /\ (smtpLog # <<>> /\ Len(smtpLog) < 3 /\ AllFailed(smtpLog))
          => sendState = "calling"

(* C5 witness: the third session succeeded after two failures *)
SentOnThirdAttempt ==
    /\ sendState = "returned"
    /\ smtpLog = <<"failed", "failed", "sent">>

HasDate(log_files, date) == \E i \in DOMAIN log_files : log_files[i].date = date

SizeOn(log_files, date) ==
    IF HasDate(log_files, date)
    THEN (CHOOSE f \in Range(log_files) : f.date = date).size
    ELSE 0

(* C6: after every recordDelivery the log files left total at most 25 MiB  *)
(* (or none is left); a file is gone only if every older one is gone too,  *)
(* the file just written being the newest; the files left are unchanged    *)
(* but for the one line added to the file of the day.                      *)
LedgerPrunedOldestFirst ==
    [][ logFiles' # logFiles =>
          /\ logFiles' = <<>> \/ TotalSize(logFiles') <= 25 * 1024 * 1024
          /\ \A i, j \in DOMAIN logFiles :
                (i < j /\ HasDate(logFiles', logFiles[i].date))
                    => HasDate(logFiles', logFiles[j].date)
          /\ logFiles' # <<>> => Last(logFiles').date = clock
          /\ \A k \in DOMAIN logFiles' :
                /\ k < Len(logFiles') => logFiles'[k] \in Range(logFiles)
                /\ k < Len(logFiles') => logFiles'[k].date < logFiles'[k + 1].date
          /\ logFiles' # <<>> =>
                Last(logFiles').size =
                    SizeOn(logFiles, clock) + 23 + Len(Last(written').story) ]_vars

(* C6 witness: a delivery was recorded and pruning emptied the directory *)
LedgerEmptiedByPruning ==
    /\ pc = "ledger"
    /\ written # <<>>
    /\ logFiles = <<>>

(* C7: with the bot disabled nothing is fetched, no directory and no file  *)
(* is made, nothing is written to the ledger, and apart from the start     *)
(* notification and job's 'Bot Error' the only mail sent is the summary,   *)
(* to the error recipient, with no story line and no attachment.           *)
DisabledBotOnlySendsEmptySummary ==
    ~botEnabled =>
        /\ fetches = <<>>
        /\ dirs = {}
        /\ DOMAIN files = {}
        /\ written = <<>>
        /\ summary = <<>>
        /\ StoryMails = {}
        /\ \A m \in Range(outbox) \ (StartedMails \cup BotErrorMails) :
              /\ m \in SummaryMails
              /\ m.To = "error_receiver"
              /\ m.text = <<"Summary:\n\n">>

(* C7 witness: stories are configured, the bot is disabled, the summary    *)
(* went out and the process ended                                          *)
DisabledRunEnded ==
    /\ ~botEnabled
    /\ pairs # <<>>
    /\ pc = "exit"
    /\ SummaryMails # {}

OutcomeLine(i, outcome) ==
    IF outcome = "success"
    THEN <<"Successfully processed and sent ">> \o pairs[i].story
             \o <<" by ">> \o pairs[i].author
    ELSE <<"Failed to send and delete EPUB for ">> \o pairs[i].story
             \o <<": ", "RetryError">>

OneLinePerPair(text) ==
    \E outcomes \in [DOMAIN pairs -> {"success", "failure"}] :
        text = SummaryBody([i \in DOMAIN pairs |-> OutcomeLine(i, outcomes[i])])

JobCaught == msg.Subject = <<"Error: ", "Bot Error">>

(* C9 as claimed: when job has caught the failure of download_stories and  *)
(* the process has ended, one 'Bot Error' mail was delivered and no error  *)
(* left job.                                                               *)
JobAlwaysReportsByMail ==
    (JobCaught /\ pc \in {"exit", "crashed"}) =>
        /\ pc = "exit"
        /\ CountIn(outbox, BotErrorMails) = 1

(* C9 as amended: job calls send_email for 'Bot Error' only after the      *)
(* third attempt of download_stories raised, once, to the error recipient; *)
(* if that send returns, exactly one 'Bot Error' mail is delivered and the *)
(* process ends normally; if it raises, none is delivered and the error of *)
(* that send is the only one that leaves job.                              *)
JobReportsOnceIfMailWorks ==
    /\ CountIn(outbox, BotErrorMails) <= 1
    /\ JobCaught =>
          /\ attempt = 3
          /\ msg.To = "error_receiver"
          /\ pc \in {"send_boterror", "exit", "crashed"}
          /\ SummaryMails = {}
    /\ pc = "send_boterror" => JobCaught
    /\ (JobCaught /\ pc = "exit") => CountIn(outbox, BotErrorMails) = 1
    /\ (JobCaught /\ pc = "crashed") => BotErrorMails = {}
    /\ (pc = "crashed" /\ attempt > 0) => JobCaught
    /\ (pc = "exit" /\ ~JobCaught) => CountIn(outbox, SummaryMails) = 1

(* C9 witness: the third attempt raised, 'Bot Error' went out, the process *)
(* ended                                                                   *)
BotErrorReported ==
    /\ pc = "exit"
    /\ attempt = 3
    /\ CountIn(outbox, BotErrorMails) = 1

AttemptFetches == SelectSeq(fetches, LAMBDA f : f.attempt = attempt)

(* C10: download_stories runs at most 3 times; an attempt starts only at   *)
(* job's call or after the attempt before raised, which only a failed      *)
(* fetch or e-book write, or a raised error notification or summary send   *)
(* causes; it starts with an empty summary at the first pair, and it has   *)
(* fetched and sent or failed every pair before it, in order, whatever     *)
(* earlier attempts delivered.                                             *)
RetryRestartsFromFirstStory ==
    /\ [](attempt <= 3)
    /\ [](pc \in {"loop", "send_story", "send_error", "send_summary"} =>
            /\ \A k \in DOMAIN AttemptFetches :
                  /\ AttemptFetches[k].idx = k
                  /\ AttemptFetches[k].story = pairs[k].story
            /\ Len(summary) = idx - 1
            /\ Len(AttemptFetches) =
                  IF ~botEnabled THEN 0
                  ELSE IF pc \in {"send_story", "send_error"} THEN idx
                  ELSE idx - 1)
    /\ [][ /\ attempt' # attempt =>
                /\ attempt' = attempt + 1
                /\ pc = "raised" \/ (pc = "boot" /\ attempt = 0)
                /\ summary' = <<>>
                /\ failed_files' = <<>>
                /\ idx' = 1
                /\ pc' = "loop"
           /\ (pc' = "raised" /\ pc # "raised") =>
                \/ pc = "loop" /\ botEnabled /\ Len(fetches') = Len(fetches) + 1
                \/ pc \in {"send_error", "send_summary"} /\ sendState = "raised" ]_vars

(* C10 witness: in a later attempt a story's e-book is delivered that an   *)
(* earlier attempt had already delivered                                   *)
StoryDeliveredAgain ==
    /\ attempt > 1
    /\ \E i, j \in DOMAIN outbox :
          /\ i < j
          /\ outbox[i] = outbox[j]
          /\ outbox[i].attachment # <<>>

=============================================================================
